---- MODULE Spec2Model ----
(***************************************************************************)
(* The HN /newest scraper of index.js as a state machine: one run of the  *)
(* async main function (launch, newPage, the pagination / dedup / retry   *)
(* loop, the outcome, the finally block) against a page source that       *)
(* serves one DOM per scrape.                                             *)
(*                                                                         *)
(* JavaScript strings are sequences of one-character strings, so that     *)
(* trim(), startsWith() and replace(/^\//) are computed, not assumed.     *)
(* null is a value no such string equals.                                 *)
(***************************************************************************)
EXTENDS Integers, Sequences, FiniteSets, TLC

\* ------------------------------------------------------------------ bounds

\* Largest --count given on the command line.
MaxCount == 2

\* Most tr.athing rows of the document the parser is followed on.
MaxParseRows == 1

\* Most characters after the = of a --count= or --max-pages= argument.
MaxArgLen == 2

\* Largest --max-pages given on the command line.
MaxPagesArg == 2

\* Most tr.athing rows one served page holds.
MaxRows == 2

\* ----------------------------------------------------------------- strings

null == <<"null">>

\* JavaScript truthiness of a string-or-null value.
Truthy(v) == v # null /\ v # <<>>

\* x || ''
OrEmpty(v) == IF Truthy(v) THEN v ELSE <<>>

RECURSIVE TrimStart(_)
TrimStart(s) ==
    IF s # <<>> /\ Head(s) = " " THEN TrimStart(Tail(s)) ELSE s

RECURSIVE TrimEnd(_)
TrimEnd(s) ==
    IF s # <<>> /\ s[Len(s)] = " " THEN TrimEnd(SubSeq(s, 1, Len(s) - 1)) ELSE s

\* String.prototype.trim
Trim(s) == TrimEnd(TrimStart(s))

\* String.prototype.startsWith
StartsWith(s, p) == Len(s) >= Len(p) /\ SubSeq(s, 1, Len(p)) = p

HTTP == <<"h", "t", "t", "p">>

BASE == <<"h", "t", "t", "p", "s", ":", "/", "/", "h", "n">>

START == BASE \o <<"/", "n", "e", "w", "e", "s", "t">>

\* moreHref.replace(/^\//, '')
StripLeadingSlash(s) == IF s # <<>> /\ Head(s) = "/" THEN Tail(s) ELSE s

\* index.js line 97: the url of the next page.
ResolveUrl(moreHref) ==
    IF StartsWith(moreHref, HTTP) THEN moreHref
    ELSE BASE \o <<"/">> \o StripLeadingSlash(moreHref)

\* ------------------------------------------------------------------ parser

\* One tr.athing row of a served DOM: its id attribute, the text of its
\* span.titleline a (null: no such element), the title attribute and the text
\* of the span.age of the next row (null: absent).
Row(id, title, ageTitle, ageText) ==
    [id |-> id, title |-> title, ageTitle |-> ageTitle, ageText |-> ageText]

RowId(row) == OrEmpty(row.id)

RowTitle(row) == IF row.title = null THEN <<>> ELSE Trim(row.title)

RowIso(row) ==
    LET isoAttr == OrEmpty(row.ageTitle)
    IN  IF isoAttr # <<>> THEN isoAttr
        ELSE IF row.ageText = null THEN <<>> ELSE OrEmpty(Trim(row.ageText))

\* Mutant: if (id).
RowValid_IdOnly(row) == RowId(row) # <<>>

\* if (id && title && iso)
RowValid(row) == RowId(row) # <<>> /\ RowTitle(row) # <<>> /\ RowIso(row) # <<>>

RowItem(row) == [id |-> RowId(row), title |-> RowTitle(row), iso |-> RowIso(row)]

RECURSIVE ParseRows(_)
ParseRows(rows) ==
    IF rows = <<>> THEN <<>>
    ELSE IF RowValid(Head(rows))
         THEN <<RowItem(Head(rows))>> \o ParseRows(Tail(rows))
         ELSE ParseRows(Tail(rows))

\* ------------------------------------------------------------ served pages

RowPool ==
    { Row(<<"a">>, <<"x">>, <<"1">>, <<"m">>),
      Row(<<"a">>, <<" ", "y">>, null, <<"2", " ">>),
      Row(<<"b">>, <<"x">>, <<"1">>, null),
      Row(<<"c">>, <<"z">>, <<>>, <<"3">>),
      Row(<<"b">>, null, <<"1">>, <<"m">>) }

HrefPool ==
    { null, <<>>, <<"n">>, HTTP \o <<"n">> }

SeqsUpTo(S, n) == UNION { [1..k -> S] : k \in 0..n }

Doms == [rows : SeqsUpTo(RowPool, MaxRows), more : HrefPool]

\* ------------------------------------------------------------------- state

VARIABLES
    want,        \* args.count
    maxPages,    \* args.maxPages
    json,        \* args.json
    pc,          \* the position of the async main function
    browser,     \* "none", "open" or "closed"
    url,         \* the url the next page.goto loads
    seen,        \* the Set of ids
    collected,   \* the array of collected items
    pages,       \* the number of pages merged
    items,       \* the items of the current iteration
    moreHref,    \* the moreHref of the current iteration
    idx,         \* the item the for-of loop is at
    exitCode,    \* the exit code of the process (-1: not set)
    out,         \* the outcomes written to stdout
    err,         \* the error thrown (null: none)
    served,      \* history: the first occurrence of each id in the items served
    gotos,       \* history: page.goto calls issued
    pageReloads, \* history: page.reload calls issued in the current iteration
    closes,      \* history: browser.close calls issued
    attached,    \* whether the last waitForSelector found tr.athing attached
    skipped,     \* history: for-of turns that found the id in seen
    tape,        \* history: the urls scraped by the first of two runs, and the DOMs found
    scrapes,     \* history: scrapePage calls of the current run
    firstRun,    \* the outcomes of the first of two runs (<<>>: none was made)
    argv,        \* process.argv.slice(2), where parseArgs is followed
    doc,         \* the document page.evaluate reads, where the parser is followed
    parsed       \* history: the results scrapePage returned for doc

vars ==
    <<want, maxPages, json, pc, browser, url, seen, collected, pages, items,
      moreHref, idx, exitCode, out, err, served, gotos, pageReloads,
      closes, attached, skipped, tape, scrapes, firstRun, argv, doc, parsed>>

inVars == <<argv, doc, parsed>>

auxVars == <<skipped, tape, scrapes, firstRun, inVars>>

cfgVars == <<want, maxPages, json>>

loopVars == <<seen, collected, pages, items, moreHref, idx, url>>

histVars == <<served, gotos, pageReloads, attached>>

\* Mutant: the callback leaves out the rows whose id the run has seen.
scrapePage_Unseen(dom) ==
    [items |-> SelectSeq(ParseRows(dom.rows), LAMBDA it : it.id \notin seen),
     moreHref |-> dom.more]

\* The function page.evaluate runs: the valid items in row order, and the
\* href attribute of a.morelink (null: no such element, or no href).
scrapePage(dom) == [items |-> ParseRows(dom.rows), moreHref |-> dom.more]

\* Mutant: Math.max(1, parseInt(v, 10)) with NaN read as 0, without || dflt.
Coerce_ClampOnly(n, dflt) == IF n < 1 THEN 1 ELSE n

\* Mutant: parseInt(v, 10) || dflt, without Math.max.
Coerce_NoClamp(n, dflt) == IF n = 0 THEN dflt ELSE n

\* Math.max(1, parseInt(v, 10) || dflt) on an argument that parsed to the integer n.
Coerce(n, dflt) == LET v == IF n = 0 THEN dflt ELSE n IN IF v < 1 THEN 1 ELSE v

MAX_PAGES_DEFAULT == 15

COUNT_DEFAULT == 100

Init ==
    /\ want \in { Coerce(n, COUNT_DEFAULT) : n \in 1..MaxCount }
    /\ maxPages \in { Coerce(n, MAX_PAGES_DEFAULT) : n \in 1..MaxPagesArg }
    /\ json \in BOOLEAN
    /\ pc = "launch"
    /\ browser = "none"
    /\ url = START
    /\ seen = {}
    /\ collected = <<>>
    /\ pages = 0
    /\ items = <<>>
    /\ moreHref = null
    /\ idx = 1
    /\ exitCode = -1
    /\ out = <<>>
    /\ err = null
    /\ served = <<>>
    /\ gotos = 0
    /\ pageReloads = 0
    /\ closes = 0
    /\ attached = FALSE
    /\ skipped = 0
    /\ tape = <<>>
    /\ scrapes = 0
    /\ firstRun = <<>>
    /\ argv = <<>>
    /\ doc = [rows |-> <<>>, more |-> null]
    /\ parsed = <<>>

\* ------------------------------------------------------------ setup (58-71)

\* const browser = await chromium.launch(...)
Launch ==
    /\ pc = "launch"
    /\ browser' = "open"
    /\ pc' = "newPage"
    /\ UNCHANGED <<cfgVars, auxVars, loopVars, histVars, exitCode, out, err, closes>>

\* chromium.launch rejects: the rejection leaves the async function.
LaunchFail ==
    /\ pc = "launch"
    /\ err' = <<"l">>
    /\ pc' = "unhandled"
    /\ UNCHANGED <<cfgVars, auxVars, loopVars, histVars, exitCode, out, browser, closes>>

\* const page = await browser.newPage()
NewPage ==
    /\ pc = "newPage"
    /\ pc' = "loop"
    /\ UNCHANGED <<cfgVars, auxVars, loopVars, histVars, exitCode, out, err, browser,
                   closes>>

\* browser.newPage rejects before the try block is entered.
NewPageFail ==
    /\ pc = "newPage"
    /\ err' = <<"p">>
    /\ pc' = "unhandled"
    /\ UNCHANGED <<cfgVars, auxVars, loopVars, histVars, exitCode, out, browser, closes>>

\* ------------------------------------------------------- the loop (72-98)

\* Mutant: pages + 1 < maxPages.
LoopCond_Short == Len(collected) < want /\ pages + 1 < maxPages

\* Mutant: pages <= maxPages.
LoopCond_Le == Len(collected) < want /\ pages <= maxPages

\* while (collected.length < want && pages < maxPages)
LoopCond == Len(collected) < want /\ pages < maxPages

LoopTest ==
    /\ pc = "loop"
    /\ pc' = IF LoopCond THEN "goto" ELSE "report"
    /\ UNCHANGED <<cfgVars, auxVars, loopVars, histVars, exitCode, out, err, browser,
                   closes>>

\* await page.goto(url, ...)
Goto ==
    /\ pc = "goto"
    /\ gotos' = gotos + 1
    /\ pageReloads' = 0
    /\ pc' = "wait"
    /\ UNCHANGED <<cfgVars, auxVars, loopVars, exitCode, out, err, browser, closes,
                   served, attached>>

\* page.goto rejects: control passes to the catch block.
GotoFail ==
    /\ pc = "goto"
    /\ gotos' = gotos + 1
    /\ err' = <<"g">>
    /\ pc' = "catch"
    /\ UNCHANGED <<cfgVars, auxVars, loopVars, exitCode, out, browser, closes,
                   served, pageReloads, attached>>

\* Mutant: while (items.length === 0) in place of if.
ShouldReload_WhileEmpty(its, nReloads) == Len(its) = 0

\* if (items.length === 0) after the first scrape; the second scrape is not
\* followed by a test.
ShouldReload(its, nReloads) == nReloads = 0 /\ Len(its) = 0

RECURSIVE NoteServed(_, _)
NoteServed(hist, its) ==
    IF its = <<>> THEN hist
    ELSE IF \E i \in 1..Len(hist) : hist[i].id = Head(its).id
         THEN NoteServed(hist, Tail(its))
         ELSE NoteServed(Append(hist, Head(its)), Tail(its))

\* Mutant: no try/catch around waitForSelector, so its timeout leaves scrapePage.
WaitError_Rethrow(att) == IF att THEN null ELSE <<"t">>

\* try { await page.waitForSelector(...) } catch { }: the error that leaves
\* scrapePage when waitForSelector ends attached (att) or times out.
WaitError(att) == null

\* scrapePage(page), lines 36-38: await page.waitForSelector(...). A timeout is
\* caught and the function goes on to evaluate.
WaitForSelector ==
    /\ pc = "wait"
    /\ \E att \in BOOLEAN :
         IF WaitError(att) = null
         THEN attached' = att /\ pc' = "evaluate" /\ err' = err
         ELSE attached' = FALSE /\ pc' = "catch" /\ err' = WaitError(att)
    /\ UNCHANGED <<cfgVars, auxVars, loopVars, exitCode, out, browser, closes,
                   served, gotos, pageReloads>>

\* Mutant: line 82 reads ({ items } = await scrapePage(page)).
AssignScrape_ItemsOnly(cur, r, nReloads) ==
    IF nReloads = 0 THEN r ELSE [items |-> r.items, moreHref |-> cur.moreHref]

\* let { items, moreHref } = await scrapePage(page) (line 76, no reload yet) and
\* ({ items, moreHref } = await scrapePage(page)) (line 82, after the reload).
AssignScrape(cur, r, nReloads) == r

\* scrapePage(page), lines 40-55, on a page whose DOM is dom, and the test of
\* line 79 on its result. Where tr.athing was attached the DOM holds a row.
EvaluateDom(dom) ==
    /\ pc = "evaluate"
    /\ LET r == AssignScrape([items |-> items, moreHref |-> moreHref],
                             scrapePage(dom), pageReloads)
       IN  /\ attached => dom.rows # <<>>
           /\ attached' = FALSE
           /\ items' = r.items
           /\ moreHref' = r.moreHref
           /\ idx' = 1
           /\ IF ShouldReload(r.items, pageReloads)
              THEN /\ pc' = "reload"
                   /\ served' = served
              ELSE /\ pc' = IF r.items = <<>> THEN "merged" ELSE "merge"
                   /\ served' = NoteServed(served, r.items)
    /\ UNCHANGED <<cfgVars, seen, collected, pages, url, exitCode, out, err, browser,
                   closes, gotos, pageReloads>>

\* The scrape of a page of a source that may answer with any DOM.
Evaluate ==
    /\ \E dom \in Doms : EvaluateDom(dom)
    /\ UNCHANGED auxVars

\* page.evaluate rejects.
EvaluateFail ==
    /\ pc = "evaluate"
    /\ err' = <<"e">>
    /\ attached' = FALSE
    /\ pc' = "catch"
    /\ UNCHANGED <<cfgVars, auxVars, loopVars, exitCode, out, browser, closes,
                   served, gotos, pageReloads>>

\* await page.waitForTimeout(...); await page.reload(...)
Reload ==
    /\ pc = "reload"
    /\ pageReloads' = pageReloads + 1
    /\ pc' = "wait"
    /\ UNCHANGED <<cfgVars, auxVars, loopVars, exitCode, out, err, browser, closes,
                   served, gotos, attached>>

\* page.reload rejects.
ReloadFail ==
    /\ pc = "reload"
    /\ pageReloads' = pageReloads + 1
    /\ err' = <<"r">>
    /\ pc' = "catch"
    /\ UNCHANGED <<cfgVars, auxVars, loopVars, exitCode, out, browser, closes,
                   served, gotos, attached>>

\* Mutant: seen.has(it) in place of seen.has(it.id), which no item satisfies.
IsNew_Always(s, it) == TRUE

\* if (!seen.has(it.id))
IsNew(s, it) == it.id \notin s

\* Mutant: collected.unshift(it).
Push_Front(c, it) == <<it>> \o c

\* collected.push(it)
Push(c, it) == Append(c, it)

\* Mutant: collected.length > want.
CapReached_Gt(c, w) == Len(c) > w

\* if (collected.length >= want) break, inside the for-of loop
CapReached(c, w) == Len(c) >= w

\* One turn of for (const it of items).
MergeTurn ==
    /\ pc = "merge"
    /\ idx <= Len(items)
    /\ LET it == items[idx]
           last == idx = Len(items)
       IN  IF IsNew(seen, it)
           THEN /\ seen' = seen \cup {it.id}
                /\ collected' = Push(collected, it)
                /\ IF CapReached(collected', want) \/ last
                   THEN pc' = "merged" /\ idx' = idx
                   ELSE pc' = "merge" /\ idx' = idx + 1
           ELSE /\ UNCHANGED <<seen, collected>>
                /\ IF last
                   THEN pc' = "merged" /\ idx' = idx
                   ELSE pc' = "merge" /\ idx' = idx + 1
    /\ UNCHANGED <<cfgVars, pages, items, moreHref, url, histVars, exitCode, out,
                   err, browser, closes>>

MergeItem ==
    /\ MergeTurn
    /\ UNCHANGED auxVars

\* Mutant: the break of line 95 is unconditional.
StopAfterPage_Always(c, w, href) == TRUE

\* Mutant: the break of line 95 is missing.
StopAfterPage_CountOnly(c, w, href) == Len(c) >= w

\* Mutant: if (moreHref === null) break.
StopAfterPage_NullOnly(c, w, href) == Len(c) >= w \/ href = null

\* The two breaks after pages++ (lines 94 and 95).
StopAfterPage(c, w, href) == Len(c) >= w \/ ~Truthy(href)

\* Mutant: the statement pages++ is missing.
PagesIncr_None(p) == p

\* pages++
PagesIncr(p) == p + 1

\* pages++, the two breaks, and the url of the next page; the iteration's
\* items go out of scope.
AfterMerge ==
    /\ pc = "merged"
    /\ pages' = PagesIncr(pages)
    /\ IF StopAfterPage(collected, want, moreHref)
       THEN pc' = "report" /\ url' = url
       ELSE pc' = "loop" /\ url' = ResolveUrl(moreHref)
    /\ items' = <<>>
    /\ idx' = 1
    /\ pageReloads' = 0
    /\ UNCHANGED <<cfgVars, auxVars, seen, collected, moreHref, served, gotos, attached,
                   exitCode, out, err, browser, closes>>

\* ----------------------------------------------------- outcome (100-135)

\* Mutant: collected.slice(1, want).
Slice_FromOne(c, n) == SubSeq(c, 2, IF Len(c) < n THEN Len(c) ELSE n)

\* collected.slice(0, want)
Slice(c, n) == SubSeq(c, 1, IF Len(c) < n THEN Len(c) ELSE n)

\* Mutant: const ok = collected.length > 0.
Ok_NonEmpty == Len(collected) > 0

\* const ok = collected.length >= want
Ok == Len(collected) >= want

\* What the try block prints: the JSON record of lines 103-107, or the list,
\* the summary line and the status line of lines 109-112. error is null where
\* the output carries none, dups is -1 where the output carries none.
Outcome ==
    [ ok        |-> Ok,
      requested |-> want,
      collected |-> Len(collected),
      pages     |-> pages,
      maxPages  |-> IF json THEN maxPages ELSE -1,
      items     |-> Slice(collected, want),
      dups      |-> IF json THEN -1 ELSE Cardinality(seen) - Len(collected),
      error     |-> null ]

\* Mutant: the catch block reports without the error.
ErrorOutcome_NoError ==
    [ ok        |-> FALSE,
      requested |-> IF json THEN want ELSE -1,
      collected |-> IF json THEN Len(collected) ELSE -1,
      pages     |-> IF json THEN pages ELSE -1,
      maxPages  |-> IF json THEN maxPages ELSE -1,
      items     |-> IF json THEN collected ELSE <<>>,
      dups      |-> -1,
      error     |-> null ]

\* Mutant: the catch block reports items: [].
ErrorOutcome_NoItems == [ErrorOutcome_NoError EXCEPT !.items = <<>>, !.error = err]

\* What the catch block prints: the JSON record of lines 118-123, or the error
\* on stderr and the line false.
ErrorOutcome ==
    [ ok        |-> FALSE,
      requested |-> IF json THEN want ELSE -1,
      collected |-> IF json THEN Len(collected) ELSE -1,
      pages     |-> IF json THEN pages ELSE -1,
      maxPages  |-> IF json THEN maxPages ELSE -1,
      items     |-> IF json THEN collected ELSE <<>>,
      dups      |-> -1,
      error     |-> err ]

\* Mutant: process.exitCode = ok ? 1 : 0.
ExitCodeFor_Inverted(ok) == IF ok THEN 1 ELSE 0

\* process.exitCode = ok ? 0 : 1
ExitCodeFor(ok) == IF ok THEN 0 ELSE 1

\* Lines 100-115: the outcome of a loop that ended without an exception.
Report ==
    /\ pc = "report"
    /\ out' = Append(out, Outcome)
    /\ exitCode' = ExitCodeFor(Ok)
    /\ pc' = "finally"
    /\ UNCHANGED <<cfgVars, auxVars, loopVars, histVars, err, browser, closes>>

\* Lines 116-128: the outcome of an exception thrown inside the try block.
Catch ==
    /\ pc = "catch"
    /\ out' = Append(out, ErrorOutcome)
    /\ exitCode' = 1
    /\ pc' = "finally"
    /\ UNCHANGED <<cfgVars, auxVars, loopVars, histVars, err, browser, closes>>

\* finally { await browser.close() }
Finally ==
    /\ pc = "finally"
    /\ browser' = "closed"
    /\ closes' = closes + 1
    /\ pc' = "exit"
    /\ UNCHANGED <<cfgVars, auxVars, loopVars, histVars, exitCode, out, err>>

\* .catch(err => { console.error('Unhandled error:', err); process.exit(1) }):
\* a rejection of the async function that no try block covers.
Unhandled ==
    /\ pc = "unhandled"
    /\ exitCode' = 1
    /\ pc' = "exit"
    /\ UNCHANGED <<cfgVars, auxVars, loopVars, histVars, out, err, browser, closes>>

Next ==
    \/ Launch
    \/ LaunchFail
    \/ NewPage
    \/ NewPageFail
    \/ LoopTest
    \/ Goto
    \/ GotoFail
    \/ WaitForSelector
    \/ Evaluate
    \/ EvaluateFail
    \/ Reload
    \/ ReloadFail
    \/ MergeItem
    \/ AfterMerge
    \/ Report
    \/ Catch
    \/ Finally
    \/ Unhandled

Spec == Init /\ [][Next]_vars


\* ------------------------------------------- runs with the skips counted

\* One turn of for (const it of items), with the turns that found the id in
\* seen counted.
MergeItemCounted ==
    /\ MergeTurn
    /\ skipped' = IF IsNew(seen, items[idx]) THEN skipped ELSE skipped + 1
    /\ UNCHANGED <<tape, scrapes, firstRun, inVars>>

\* Text-mode runs, the mode that prints the Dups figure, for the largest count.
InitDups == Init /\ ~json /\ want = Coerce(MaxCount, COUNT_DEFAULT)

\* The steps of a run in which no call rejects.
NextDups ==
    \/ Launch
    \/ NewPage
    \/ LoopTest
    \/ Goto
    \/ WaitForSelector
    \/ Evaluate
    \/ Reload
    \/ MergeItemCounted
    \/ AfterMerge
    \/ Report
    \/ Finally

SpecDups == InitDups /\ [][NextDups]_vars

\* ----------------------------------------- two runs on the same source

\* The pages of the source the two runs read: an empty page, pages that repeat
\* an id of another page, a page that repeats an id with other fields, and a
\* page with a row without title followed by a row with the same id.
PrefixPages ==
    { <<>>,
      <<Row(<<"a">>, <<"x">>, <<"1">>, <<"m">>), Row(<<"b">>, <<"x">>, <<"1">>, null)>>,
      <<Row(<<"b">>, <<"x">>, <<"1">>, null), Row(<<"c">>, <<"z">>, <<>>, <<"3">>)>>,
      <<Row(<<"a">>, <<" ", "y">>, null, <<"2", " ">>)>>,
      <<Row(<<"b">>, null, <<"1">>, <<"m">>), Row(<<"b">>, <<"x">>, <<"1">>, null)>> }

PrefixDoms == { d \in Doms : d.rows \in PrefixPages /\ d.more \in {null, <<"n">>} }

\* The source is deterministic: to the same sequence of requests it answers
\* with the same sequence of pages. The first run records the url and the DOM
\* of each scrape; the second run finds the recorded DOM wherever its scrape
\* is of the recorded url, and any DOM once it reads on.
TapeAllows(dom) ==
    (firstRun # <<>> /\ scrapes < Len(tape) /\ tape[scrapes + 1].url = url)
        => dom = tape[scrapes + 1].dom

EvaluateTape ==
    /\ \E dom \in PrefixDoms :
         /\ TapeAllows(dom)
         /\ EvaluateDom(dom)
         /\ tape' = IF firstRun = <<>>
                    THEN Append(tape, [url |-> url, dom |-> dom])
                    ELSE tape
    /\ scrapes' = scrapes + 1
    /\ UNCHANGED <<skipped, firstRun, inVars>>

\* node index.js --count=n1 --json has ended; node index.js --count=n2 --json
\* is started with n1 <= n2 and the same maxPages.
Restart ==
    /\ pc = "exit"
    /\ firstRun = <<>>
    /\ firstRun' = out
    /\ want' \in { n \in { Coerce(m, COUNT_DEFAULT) : m \in 1..MaxCount } : want <= n }
    /\ pc' = "launch"
    /\ browser' = "none"
    /\ url' = START
    /\ seen' = {}
    /\ collected' = <<>>
    /\ pages' = 0
    /\ items' = <<>>
    /\ moreHref' = null
    /\ idx' = 1
    /\ exitCode' = -1
    /\ out' = <<>>
    /\ err' = null
    /\ served' = <<>>
    /\ gotos' = 0
    /\ pageReloads' = 0
    /\ closes' = 0
    /\ attached' = FALSE
    /\ scrapes' = 0
    /\ UNCHANGED <<maxPages, json, skipped, tape, inVars>>

InitPrefix == Init /\ json

NextPrefix ==
    \/ Launch
    \/ NewPage
    \/ LoopTest
    \/ Goto
    \/ WaitForSelector
    \/ EvaluateTape
    \/ Reload
    \/ MergeItem
    \/ AfterMerge
    \/ Report
    \/ Finally
    \/ Restart

SpecPrefix == InitPrefix /\ [][NextPrefix]_vars

\* ------------------------------------------------- runs that are resumed

\* The scrape of a page of a source that answers with one of the pages listed
\* above.
EvaluateListed ==
    /\ \E dom \in PrefixDoms : EvaluateDom(dom)
    /\ UNCHANGED auxVars

NextFair ==
    \/ Launch
    \/ LaunchFail
    \/ NewPage
    \/ NewPageFail
    \/ LoopTest
    \/ Goto
    \/ GotoFail
    \/ WaitForSelector
    \/ EvaluateListed
    \/ EvaluateFail
    \/ Reload
    \/ ReloadFail
    \/ MergeItem
    \/ AfterMerge
    \/ Report
    \/ Catch
    \/ Finally
    \/ Unhandled

\* Every awaited call returns or rejects, and the event loop then resumes the
\* async function: a run with a step left to take takes it.
FairSpec == Init /\ [][NextFair]_vars /\ WF_vars(NextFair)

\* ------------------------------------- the parser on one document

\* Rows whose id attribute, title text, age title attribute and age text are
\* absent, blank, or text with blanks around it.
ParserRows ==
    { Row(i, t, a, x) :
        i \in { null, <<" ">>, <<"a">> },
        t \in { null, <<" ">>, <<" ", "x", " ">> },
        a \in { null, <<" ">>, <<"1">> },
        x \in { null, <<" ">>, <<"3", " ">> } }

ParserDocs == [rows : SeqsUpTo(ParserRows, MaxParseRows), more : { <<"n">> }]

\* A run for MaxCount entries within MaxPagesArg pages, on a source every page
\* of which is the document doc.
InitParser ==
    /\ Init
    /\ want = Coerce(MaxCount, COUNT_DEFAULT)
    /\ maxPages = Coerce(MaxPagesArg, MAX_PAGES_DEFAULT)
    /\ json

\* The first step of such a run: the source is given its document.
ServeDoc ==
    /\ pc = "launch"
    /\ doc = [rows |-> <<>>, more |-> null]
    /\ parsed = <<>>
    /\ doc' \in ParserDocs \ {doc}
    /\ UNCHANGED <<cfgVars, loopVars, histVars, exitCode, out, err, browser, closes,
                   pc, skipped, tape, scrapes, firstRun, argv, parsed>>

\* scrapePage(page) on the document doc; what it returned is kept.
EvaluateDoc ==
    /\ EvaluateDom(doc)
    /\ parsed' = Append(parsed, scrapePage(doc))
    /\ UNCHANGED <<skipped, tape, scrapes, firstRun, argv, doc>>

NextParser ==
    \/ ServeDoc
    \/ Launch
    \/ NewPage
    \/ LoopTest
    \/ Goto
    \/ WaitForSelector
    \/ EvaluateDoc
    \/ Reload
    \/ MergeItem
    \/ AfterMerge
    \/ Report
    \/ Finally

SpecParser == InitParser /\ [][NextParser]_vars

\* ------------------------------------------------------------- parseArgs

Digits == { "0", "1", "2", "3", "4", "5", "6", "7", "8", "9" }

DigitVal(c) ==
    CASE c = "0" -> 0 [] c = "1" -> 1 [] c = "2" -> 2 [] c = "3" -> 3 [] c = "4" -> 4
      [] c = "5" -> 5 [] c = "6" -> 6 [] c = "7" -> 7 [] c = "8" -> 8 [] c = "9" -> 9

\* The value of the longest prefix of digits of s, read after the value acc;
\* none is TRUE while no digit was read.
RECURSIVE ReadDigits(_, _, _)
ReadDigits(s, acc, none) ==
    IF s # <<>> /\ Head(s) \in Digits
    THEN ReadDigits(Tail(s), 10 * acc + DigitVal(Head(s)), FALSE)
    ELSE [nan |-> none, val |-> acc]

\* parseInt(s, 10): leading blanks are skipped, a sign is read, then digits as
\* far as they go; NaN where there is no digit.
ParseInt(s) ==
    LET t == TrimStart(s)
        signed == t # <<>> /\ Head(t) \in {"-", "+"}
        r == ReadDigits(IF signed THEN Tail(t) ELSE t, 0, TRUE)
    IN  IF t # <<>> /\ Head(t) = "-" THEN [nan |-> r.nan, val |-> 0 - r.val] ELSE r

\* Math.max(1, parseInt(v, 10) || dflt): NaN and 0 are falsy.
CoerceArg(v, dflt) ==
    LET n == ParseInt(v) IN Coerce(IF n.nan THEN 0 ELSE n.val, dflt)

\* One argument of the command line: the flag it starts with, and
\* a.split('=')[1] where the flag takes a value.
Arg(flag, value) == [flag |-> flag, value |-> value]

\* One turn of for (const a of argv.slice(2)).
ApplyArg(args, a) ==
    IF a.flag = "--count=" THEN [args EXCEPT !.count = CoerceArg(a.value, COUNT_DEFAULT)]
    ELSE IF a.flag = "--json" THEN [args EXCEPT !.json = TRUE]
    ELSE IF a.flag = "--max-pages="
         THEN [args EXCEPT !.maxPages = CoerceArg(a.value, MAX_PAGES_DEFAULT)]
    ELSE args

RECURSIVE parseArgs(_, _)
parseArgs(args, av) ==
    IF av = <<>> THEN args ELSE parseArgs(ApplyArg(args, Head(av)), Tail(av))

ArgChars == { " ", "-", "0", "2", "x" }

ArgValues == SeqsUpTo(ArgChars, MaxArgLen)

ArgPool ==
    { Arg(f, v) : f \in { "--count=", "--max-pages=" }, v \in ArgValues }
        \cup { Arg("--json", <<>>), Arg("--other", <<>>) }

\* Command lines of at most two arguments.
ArgvPool == SeqsUpTo(ArgPool, 2)

\* const args = { count: 100, head: false, json: false, maxPages: 15 }, before
\* the loop over argv.
InitArgs ==
    /\ argv \in ArgvPool
    /\ want = COUNT_DEFAULT
    /\ maxPages = MAX_PAGES_DEFAULT
    /\ json = FALSE
    /\ pc = "parseArgs"
    /\ browser = "none"
    /\ url = START
    /\ seen = {}
    /\ collected = <<>>
    /\ pages = 0
    /\ items = <<>>
    /\ moreHref = null
    /\ idx = 1
    /\ exitCode = -1
    /\ out = <<>>
    /\ err = null
    /\ served = <<>>
    /\ gotos = 0
    /\ pageReloads = 0
    /\ closes = 0
    /\ attached = FALSE
    /\ skipped = 0
    /\ tape = <<>>
    /\ scrapes = 0
    /\ firstRun = <<>>
    /\ doc = [rows |-> <<>>, more |-> null]
    /\ parsed = <<>>

\* const args = parseArgs(process.argv); want, maxPages and json are read
\* from it.
ParseArgs ==
    /\ pc = "parseArgs"
    /\ LET args == parseArgs([count |-> want, json |-> json, maxPages |-> maxPages], argv)
       IN  /\ want' = args.count
           /\ maxPages' = args.maxPages
           /\ json' = args.json
    /\ pc' = "launch"
    /\ UNCHANGED <<loopVars, histVars, exitCode, out, err, browser, closes,
                   skipped, tape, scrapes, firstRun, inVars>>

NextArgs ==
    \/ ParseArgs
    \/ Launch

SpecArgs == InitArgs /\ [][NextArgs]_vars

\* ------------------------------------------------------------------ claims

\* The run is over and no call of the loop or the setup rejected.
EndedNormally == pc = "exit" /\ err = null

\* The errors a call inside the try block throws: goto, evaluate, reload.
LoopErrors == { <<"g">>, <<"e">>, <<"r">> }

\* The pages visited are all the pages the source lets the run reach within
\* maxPages visits: the last one carries no next-page token, or the budget is
\* used up. Any other run leaves pages unvisited, which may hold anything.
ExhaustedByNullToken == moreHref = null \/ pages >= maxPages

\* The same, where a next-page token is an href that is neither null nor empty.
ExhaustedByFalsyToken == ~Truthy(moreHref) \/ pages >= maxPages

\* C1, as stated: a run without hard failure ends with ok = true and exactly
\* requestedCount entries collected, unless the pages reachable by following
\* next-page tokens (any non-null href) within maxPages visits hold fewer than
\* requestedCount unique valid entries.
C1_ThresholdAnyToken ==
    EndedNormally =>
        \/ Len(collected) = want /\ out[1].ok /\ out[1].collected = want
        \/ ExhaustedByNullToken /\ Len(served) < want

\* C1, amended: a run without hard failure ends with ok = true and exactly
\* requestedCount entries collected, never more, unless the pages reachable by
\* following non-empty next-page hrefs within maxPages visits hold fewer than
\* requestedCount unique valid entries.
C1_Threshold ==
    EndedNormally =>
        \/ Len(collected) = want /\ out[1].ok /\ out[1].collected = want
        \/ ExhaustedByFalsyToken /\ Len(served) < want

\* A two-page run that met the count on a source that served more unique
\* entries than were asked for.
C1_Witness ==
    EndedNormally /\ out[1].ok /\ pages = 2 /\ Len(served) > want
    /\ Len(collected) = want

\* C2: a run without hard failure on pages that hold fewer than requestedCount
\* unique valid entries ends with ok = false, and what it collected is every
\* unique valid entry the visited pages served.
C2_Budget ==
    (EndedNormally /\ Len(served) < want) =>
        /\ Len(collected) = Len(served)
        /\ ~out[1].ok
        /\ out[1].collected = Len(served)
        /\ exitCode = 1

\* A run that used up a budget of two pages one entry short of two.
C2_Witness ==
    EndedNormally /\ want = 2 /\ pages = 2 /\ maxPages = 2 /\ Len(served) = 1
    /\ Truthy(moreHref)

\* C3: no two entries of collected share an id, every entry of collected has
\* its id in seen, and collected is no longer than seen is large.
C3_Dedup ==
    /\ \A i, j \in 1..Len(collected) :
         i # j => collected[i].id # collected[j].id
    /\ \A i \in 1..Len(collected) : collected[i].id \in seen
    /\ Len(collected) <= Cardinality(seen)

\* The second page repeats, twice, the id of the entry the first page gave.
C3_Witness ==
    /\ pc = "merged"
    /\ pages = 1
    /\ Len(items) = 2
    /\ items[1].id = items[2].id
    /\ Len(collected) = 1
    /\ collected[1].id = items[1].id
    /\ collected[1] # items[1]

\* C4: collected is, entry by entry, a prefix of the first occurrences of the
\* ids in the order the pages served them.
C4_Order ==
    /\ Len(collected) <= Len(served)
    /\ \A i \in 1..Len(collected) : collected[i] = served[i]

\* The second page repeats an id of the first page with another title and then
\* brings a new id: the first page's entry stays first, the new entry follows.
C4_Witness ==
    /\ pc = "merged"
    /\ pages = 1
    /\ Len(items) = 2
    /\ Len(collected) = 2
    /\ items[1].id = collected[1].id
    /\ items[1] # collected[1]
    /\ items[2] = collected[2]

\* A page that parsed to zero entries, was reloaded, and parsed to zero again.
StillEmpty == pc = "merged" /\ pageReloads = 1 /\ items = <<>>

\* The loop is left: no further page.goto follows.
LoopEnds(p, c, n) == p = "report" \/ (p = "loop" /\ ~(Len(c) < want /\ n < maxPages))

C6_RetryBound ==
    [][pageReloads' > pageReloads =>
         /\ pc = "reload"
         /\ pageReloads = 0
         /\ items = <<>>
         /\ pageReloads' = 1]_vars

\* The second scrape of a reloaded page is under way.
C6_Witness == pc = "evaluate" /\ pageReloads = 1 /\ pages = 1

\* C7: a run that launched the browser has called browser.close() when it ends.
C7_SessionReleased ==
    (pc = "exit" /\ browser # "none") => (closes >= 1 /\ browser = "closed")

\* C8: a run that launched the browser has written exactly one outcome when it
\* ends.
C8_OneOutcome ==
    (pc = "exit" /\ browser # "none") => Len(out) = 1

HardFailureOutcome ==
    (pc = "exit" /\ err \in LoopErrors) =>
        /\ Len(out) = 1
        /\ ~out[1].ok
        /\ out[1].error = err
        /\ out[1].error # null

\* C10: once a call of the loop has rejected, no page.goto and no page.reload
\* is issued and the loop is not resumed; the run ends with an outcome that has
\* ok = false and the error.
C10_HardFailureAborts ==
    /\ []HardFailureOutcome
    /\ [][err # null =>
            /\ gotos' = gotos
            /\ pageReloads' = pageReloads
            /\ pc' \in {"catch", "finally", "exit", "unhandled"}
            /\ <<seen', collected', pages'>> = <<seen, collected, pages>>]_vars

\* page.goto rejected on the second page, after the first page was merged.
C10_Witness ==
    pc = "exit" /\ err = <<"g">> /\ pages = 1 /\ gotos = 2 /\ Len(collected) = 1

\* The errors a call outside the try block throws: launch, newPage.
SetupErrors == { <<"l">>, <<"p">> }

\* C11: a waitForSelector timeout and a page that parses to zero entries are
\* never the error of a run or of an outcome: after a timeout the function goes
\* on to evaluate, a zero-entry page goes on to the reload or to the merge, and
\* an outcome carries an error only if goto, evaluate or reload rejected.
C11_NonFatal ==
    /\ err # null => err \in LoopErrors \cup SetupErrors
    /\ (pc = "evaluate" /\ ~attached) => err = null
    /\ (pc \in {"reload", "merged"} /\ items = <<>>) => err = null
    /\ \A i \in 1..Len(out) :
         out[i].error # null => (err \in LoopErrors /\ out[i].error = err)

\* The scrape after a reload timed out as well, and the run goes on without an
\* error.
C11_Witness ==
    pc = "evaluate" /\ ~attached /\ pageReloads = 1 /\ pages = 1 /\ err = null

\* Both of two runs have ended, each with ok = true.
BothRunsOk ==
    /\ firstRun # <<>> /\ pc = "exit"
    /\ Len(firstRun) = 1 /\ Len(out) = 1
    /\ firstRun[1].ok /\ out[1].ok

\* C12: of two runs on the same deterministic source with the same maxPages
\* and counts n1 <= n2 that both end with ok = true, the first lists n1 items
\* and they are, position by position, the first n1 items of the second.
C12_PrefixStable ==
    BothRunsOk =>
        /\ firstRun[1].maxPages = out[1].maxPages
        /\ firstRun[1].requested <= out[1].requested
        /\ Len(firstRun[1].items) = firstRun[1].requested
        /\ Len(out[1].items) >= Len(firstRun[1].items)
        /\ \A i \in 1..Len(firstRun[1].items) : firstRun[1].items[i] = out[1].items[i]

\* A run for one entry that read one page, and a run for two entries that read
\* the same page and one more.
C12_Witness ==
    /\ BothRunsOk
    /\ firstRun[1].requested = 1 /\ firstRun[1].pages = 1
    /\ out[1].requested = 2 /\ out[1].pages = 2
    /\ Len(tape) = 1 /\ scrapes = 2

\* The page budget: no more pages merged, and no more page.goto calls issued,
\* than maxPages.
WithinPageBudget == pages <= maxPages /\ gotos <= maxPages

\* C13: where every call returns or rejects, every run comes to its end; all
\* along pagesVisited is at most maxPages and at most maxPages page.goto calls
\* are issued.
C13_Terminates == []WithinPageBudget /\ <>(pc = "exit")

\* A run that ended by using up a two-page budget short of the count.
C13_Witness ==
    /\ pc = "exit" /\ err = null
    /\ maxPages = 2 /\ pages = 2 /\ gotos = 2
    /\ Len(collected) < want /\ Truthy(moreHref)

\* C14: once collected holds requestedCount entries no page is fetched, awaited,
\* parsed or reloaded any more, whatever the last next-page href and the budget
\* left; the run ends without error with ok = true, exit code 0, pagesVisited
\* equal to the number of page.goto calls, and as items the first
\* requestedCount unique entries in the order the pages served them.
C14_StopAtCap ==
    /\ Len(collected) >= want => pc \notin {"goto", "wait", "evaluate", "reload"}
    /\ (pc = "exit" /\ Len(collected) >= want) =>
         /\ err = null
         /\ Len(out) = 1
         /\ out[1].ok
         /\ exitCode = 0
         /\ out[1].pages = gotos
         /\ Len(served) >= want
         /\ out[1].items = SubSeq(served, 1, want)

\* A count of one on a first page of two unique entries with a next-page href,
\* under a budget of two pages: one page visited, the first entry the item.
C14_Witness ==
    /\ pc = "exit" /\ want = 1 /\ maxPages = 2 /\ pages = 1 /\ gotos = 1
    /\ Len(served) = 2 /\ Truthy(moreHref)
    /\ out[1].ok /\ out[1].items = <<served[1]>>

\* C15: after the merge of a page whose next-page href is null, with fewer than
\* requestedCount entries collected, the loop is not re-entered and no page is
\* fetched, though budget remains; the run ends with ok = false, exit code 1
\* and the count collected so far.
C15_SourceExhausted ==
    /\ (pc \in {"loop", "goto", "wait", "evaluate"} /\ pages >= 1 /\ pageReloads = 0)
         => moreHref # null
    /\ (pc = "exit" /\ err = null /\ moreHref = null /\ Len(collected) < want) =>
         /\ Len(out) = 1
         /\ ~out[1].ok
         /\ exitCode = 1
         /\ out[1].collected = Len(collected)
         /\ out[1].items = collected
         /\ out[1].pages = gotos
         /\ pages = gotos

\* A count of two and a budget of two pages; the first page gave one entry and
\* a null next-page href.
C15_Witness ==
    /\ pc = "exit" /\ err = null /\ moreHref = null
    /\ want = 2 /\ maxPages = 2 /\ pages = 1 /\ Len(collected) = 1

\* C16: seen and collected grow in the same step, one entry at a time and only
\* below requestedCount; the step that brings collected to requestedCount ends
\* the merge of the page, so that no later entry of the page reaches seen or
\* collected.
C16_CapThenStop ==
    [][/\ (seen' # seen) <=> (collected' # collected)
       /\ Len(collected) >= want => (seen' = seen /\ collected' = collected)
       /\ collected' # collected =>
            /\ Len(collected') = Len(collected) + 1
            /\ Cardinality(seen') = Cardinality(seen) + 1
            /\ Len(collected') >= want => pc' = "merged"
       /\ pc' = "merge" => Len(collected') < want]_vars

\* The merge stopped at the count with a new entry of the page left over.
C16_Witness ==
    /\ pc = "merged" /\ Len(collected) = want
    /\ idx < Len(items)
    /\ items[idx + 1].id \notin seen

\* C18, the final state: a run in which no call rejected reports as
\* pagesVisited the number of page.goto calls it issued.
PagesAreGotos ==
    (pc = "exit" /\ err = null) =>
        /\ pages = gotos
        /\ Len(out) = 1
        /\ out[1].pages = gotos

\* C18: pagesVisited changes only by the step that ends the merge of a page,
\* which adds exactly one whether the page was reloaded or not and whatever it
\* held; a run in which no call rejected ends with pagesVisited equal to the
\* number of page.goto calls.
C18_PageCounting ==
    /\ []PagesAreGotos
    /\ [][/\ pages' # pages => (pc = "merged" /\ pages' = pages + 1)
          /\ pc = "merged" => (pages' = pages + 1 /\ gotos' = gotos)]_vars

\* The second page was reloaded, parsed to entries, and is merged: one page
\* counted, the second about to be.
C18_Witness ==
    /\ pc = "merged" /\ pageReloads = 1 /\ items # <<>>
    /\ pages = 1 /\ gotos = 2

\* C19: collected never holds more than requestedCount entries, and every
\* outcome that reports a count, the error outcome included, lists exactly
\* that many items and at most requestedCount.
C19_ItemsBound ==
    /\ Len(collected) <= want
    /\ \A i \in 1..Len(out) :
         out[i].collected # -1 =>
            /\ Len(out[i].items) <= want
            /\ Len(out[i].items) = out[i].collected
            /\ out[i].collected = Len(collected)

\* A JSON error outcome that lists the entry of the one page merged before
\* page.goto rejected.
C19_Witness ==
    /\ pc = "exit" /\ json /\ err = <<"g">>
    /\ out[1].error = err /\ out[1].collected = 1 /\ Len(out[1].items) = 1

\* C20, the states: the page.goto calls issued are the pages counted, plus the
\* one page that is being awaited, parsed, reloaded or merged.
OnePageInFlight ==
    /\ gotos - pages \in {0, 1}
    /\ pc \in {"wait", "evaluate", "reload", "merge", "merged"} => gotos = pages + 1
    /\ pc \in {"launch", "newPage", "loop", "goto", "report"} => gotos = pages

\* C20: pages are fetched one at a time: page.goto is called only from the
\* loop head, when every page fetched before has been parsed, merged and
\* counted in pagesVisited.
C20_PageOrder ==
    /\ []OnePageInFlight
    /\ [][gotos' # gotos =>
            /\ gotos' = gotos + 1
            /\ pc = "goto"
            /\ pages = gotos
            /\ items = <<>>]_vars

\* The second page has been navigated to and is awaited; the first is merged
\* and counted.
C20_Witness ==
    pc = "wait" /\ gotos = 2 /\ pages = 1 /\ pageReloads = 0 /\ Len(collected) = 1

\* C17: the Dups figure of a run is the number of entries its merge passed
\* over because their id was already in seen.
C17_DupCounter ==
    \A i \in 1..Len(out) : out[i].dups # -1 => out[i].dups = skipped

\* A string that is empty once the blanks around it are removed.
Blank(v) == Trim(v) = <<>>

\* C21: every entry the parser yields has an id, a title and a timestamp that
\* are non-empty after trimming.
C21_ValidAfterTrim ==
    \A k \in 1..Len(parsed) : \A i \in 1..Len(parsed[k].items) :
        LET it == parsed[k].items[i]
        IN  ~Blank(it.id) /\ ~Blank(it.title) /\ ~Blank(it.iso)

\* C23, the results: every parse of the document returned the same entries in
\* the same order and the same next-page href.
SameParse == \A j, k \in 1..Len(parsed) : parsed[j] = parsed[k]

HasFlag(f) == \E i \in 1..Len(argv) : argv[i].flag = f

\* C22: whatever follows --count= and --max-pages= on the command line, and
\* whether the flags are there or not, parseArgs returns an integer count >= 1
\* and an integer maxPages >= 1; a flag that is absent leaves the default, 100
\* or 15.
C22_Coercion ==
    pc # "parseArgs" =>
        /\ want \in Int /\ want >= 1
        /\ maxPages \in Int /\ maxPages >= 1
        /\ ~HasFlag("--count=") => want = 100
        /\ ~HasFlag("--max-pages=") => maxPages = 15

\* --count=-2 without --max-pages: count 1, maxPages 15.
C22_Witness ==
    /\ pc = "launch"
    /\ argv = <<Arg("--count=", <<"-", "2">>)>>
    /\ want = 1 /\ maxPages = 15

\* A page has been merged short of the count, and one more page is within the
\* budget once this one is counted.
MergedShort == pc = "merged" /\ Len(collected) < want /\ pages + 1 < maxPages

\* The run goes on to the page the href denotes.
Advances == pc' = "loop" /\ url' = ResolveUrl(moreHref) /\ moreHref' = moreHref

\* C24, as stated: after the merge of a page short of the count and within the
\* budget, with a next-page href that is not null (the empty string
\* included), the run does not stop and its next fetch is the page of that
\* href.
C24_AdvanceAnyToken ==
    [][(MergedShort /\ moreHref # null) => Advances]_vars

\* The url of the page.goto that follows a merged page is the one resolved
\* from that page's href.
GotoFollowsHref ==
    (pc \in {"loop", "goto"} /\ pages >= 1) =>
        (Truthy(moreHref) /\ url = ResolveUrl(moreHref))

\* C24, amended: after the merge of a page short of the count and within the
\* budget, with a next-page href that is neither null nor the empty string,
\* the run does not stop and its next fetch is the page of that href; an empty
\* href ends the run as a null one does.
C24_Advance ==
    /\ []GotoFollowsHref
    /\ [][/\ (MergedShort /\ Truthy(moreHref)) => Advances
          /\ (MergedShort /\ ~Truthy(moreHref)) => pc' = "report"
          /\ (pc = "loop" /\ pages >= 1 /\ Len(collected) < want /\ pages < maxPages)
               => (pc' = "goto" /\ url' = url)]_vars

\* The second page, whose url was resolved from the relative href of the
\* first, has been navigated to.
C24_Witness ==
    /\ pc = "wait" /\ gotos = 2 /\ pages = 1 /\ Len(collected) < want
    /\ moreHref = <<"n">> /\ url = BASE \o <<"/", "n">>

\* C25, as stated: a run that ends without a rejected call and short of the
\* count ends because the last merged page had a null next-page href or
\* because pagesVisited reached maxPages.
C25_StopReasonsNull ==
    (EndedNormally /\ Len(collected) < want) =>
        (moreHref = null \/ pages >= maxPages)

\* C25, amended: a run that ends without a rejected call and short of the
\* count ends because the last merged page had no next-page href (null or
\* the empty string) or because pagesVisited reached maxPages; it has merged
\* every page it navigated to.
C25_StopReasons ==
    (EndedNormally /\ Len(collected) < want) =>
        /\ ~Truthy(moreHref) \/ pages >= maxPages
        /\ pages >= 1
        /\ pages = gotos

\* A run that ended short of the count on a first page with an empty href,
\* with budget left.
C25_Witness ==
    /\ EndedNormally /\ Len(collected) < want
    /\ moreHref = <<>> /\ pages = 1 /\ maxPages = 2

\* C26: no step of a run removes an id from seen, and every step leaves what
\* collected held as the prefix of what it holds afterwards.
C26_Monotone ==
    [][/\ seen \subseteq seen'
       /\ Len(collected) <= Len(collected')
       /\ SubSeq(collected', 1, Len(collected)) = collected]_vars

\* Entries were appended over two pages.
C26_Witness ==
    /\ pc = "merged" /\ pages = 1 /\ Len(collected) = 2 /\ Cardinality(seen) = 2
    /\ Len(items) = 1 /\ collected[2] = items[1]

\* C27, the states: once goto, evaluate or reload has rejected while page k was
\* being processed, pagesVisited is k - 1 and seen holds the ids of collected;
\* the JSON error outcome reports the length of collected, k - 1 pages, and
\* all of collected as items.
FailureKeepsState ==
    (err \in LoopErrors) =>
        /\ pages = gotos - 1
        /\ seen = { collected[i].id : i \in 1..Len(collected) }
        /\ \A i \in 1..Len(collected) : collected[i] = served[i]
        /\ (json /\ pc \in {"finally", "exit"}) =>
              /\ Len(out) = 1
              /\ out[1].collected = Len(collected)
              /\ out[1].pages = pages
              /\ out[1].items = collected
              /\ out[1].requested = want

C28_DupsZero ==
    /\ seen = { collected[i].id : i \in 1..Len(collected) }
    /\ Cardinality(seen) = Len(collected)
    /\ \A i \in 1..Len(out) : out[i].dups # -1 => out[i].dups = 0

\* A run whose merge passed over two entries with a seen id and printed Dups: 0.
C28_Witness ==
    /\ pc = "exit" /\ skipped = 2 /\ Len(out) = 1 /\ out[1].dups = 0

\* An entry whose id, title and timestamp are all non-empty.
FullEntry(it) == it.id # <<>> /\ it.title # <<>> /\ it.iso # <<>>

\* C29: every id in seen is the id of a collected entry, and every entry the
\* parser handed over or the run collected has a non-empty id, title and
\* timestamp; so the id of a row the parser dropped is in seen only if a valid
\* entry brought it there, and the row keeps no valid entry of its id out.
C29_OnlyValidSeen ==
    /\ \A id \in seen : \E i \in 1..Len(collected) : collected[i].id = id
    /\ \A i \in 1..Len(collected) : FullEntry(collected[i])
    /\ \A i \in 1..Len(items) : FullEntry(items[i])
    /\ \A i \in 1..Len(served) : FullEntry(served[i])

\* The first page began with a row of id b without title, which the parser
\* dropped, and went on with a valid row of id b, which was collected.
C29_Witness ==
    /\ firstRun = <<>> /\ Len(tape) = 1 /\ pc = "merged"
    /\ Len(tape[1].dom.rows) = 2
    /\ tape[1].dom.rows[1].id = <<"b">> /\ tape[1].dom.rows[1].title = null
    /\ Len(items) = 1
    /\ collected = <<[id |-> <<"b">>, title |-> <<"x">>, iso |-> <<"1">>]>>
    /\ seen = {<<"b">>}

\* The first of two runs is merging, or has merged, a page it reloaded.
OnReloadedPage ==
    firstRun = <<>> /\ pc \in {"merge", "merged"} /\ pageReloads = 1 /\ Len(tape) >= 2

\* C30, the states: on a reloaded page the href the run holds is the one of
\* the document read after the reload, and the items are entries of that
\* document's rows.
HoldsReparse ==
    OnReloadedPage =>
        /\ moreHref = tape[Len(tape)].dom.more
        /\ Len(items) <= Len(tape[Len(tape)].dom.rows)
        /\ \A i \in 1..Len(items) :
             \E j \in 1..Len(tape[Len(tape)].dom.rows) :
                items[i].id = tape[Len(tape)].dom.rows[j].id

\* C30: after the soft reload the run merges the entries and follows the
\* next-page href of the re-parse: with no href in the reloaded document the
\* run ends, whatever href the first parse found, and otherwise the next url
\* is resolved from the href of the reloaded document.
C30_ReparseToken ==
    /\ []HoldsReparse
    /\ [][(OnReloadedPage /\ pc = "merged") =>
            LET t == tape[Len(tape)].dom.more
            IN  /\ ~Truthy(t) => pc' = "report"
                /\ pc' = "loop" => (Truthy(t) /\ url' = ResolveUrl(t))]_vars

\* The first parse found no entry and an href, the document read after the
\* reload has an entry and no href: the run ends short of the count with
\* budget left.
C30_Witness ==
    /\ firstRun = <<>> /\ pc = "report" /\ Len(tape) = 2 /\ pages = 1
    /\ tape[1].dom.rows = <<>> /\ tape[1].dom.more = <<"n">>
    /\ tape[2].dom.more = null
    /\ moreHref = null
    /\ Len(collected) = 1 /\ want = 2 /\ maxPages = 2

\* The value of the last argument with the flag f, which is the one that
\* stays in args.
LastValue(f) ==
    LET I == { i \in 1..Len(argv) : argv[i].flag = f }
    IN  argv[CHOOSE i \in I : \A j \in I : j <= i].value

\* What the claim gives for the value v of a flag with default dflt: the
\* default for zero and for text without a leading integer, 1 for a negative
\* integer, the integer itself where it is positive.
Fallback(v, dflt) ==
    LET n == ParseInt(v)
    IN  IF n.nan \/ n.val = 0 THEN dflt
        ELSE IF n.val < 0 THEN 1
        ELSE n.val

\* The command line is the one argument flag=v.
OnlyArg(f, v) == argv = <<Arg(f, v)>>

\* C31: a --count or --max-pages value that is zero or does not parse as an
\* integer gives the default, 100 or 15, and not 1; a negative integer gives
\* 1; a positive integer is kept. So for 0, -0, x, the empty value, x2 and
\* a lone sign the default, for -2 the value 1, for 2, 22, 2x and 2 after a
\* blank the integer read.
C31_Fallback ==
    pc # "parseArgs" =>
        /\ HasFlag("--count=") => want = Fallback(LastValue("--count="), 100)
        /\ HasFlag("--max-pages=") => maxPages = Fallback(LastValue("--max-pages="), 15)
        /\ \A v \in { <<"0">>, <<"-", "0">>, <<"x">>, <<>>, <<"x", "2">>, <<"-">> } :
             /\ OnlyArg("--count=", v) => want = 100
             /\ OnlyArg("--max-pages=", v) => maxPages = 15
        /\ \A f \in { "--count=", "--max-pages=" } :
             /\ OnlyArg(f, <<"-", "2">>) =>
                   (IF f = "--count=" THEN want ELSE maxPages) = 1
             /\ OnlyArg(f, <<"2">>) => (IF f = "--count=" THEN want ELSE maxPages) = 2
             /\ OnlyArg(f, <<"2", "2">>) => (IF f = "--count=" THEN want ELSE maxPages) = 22
             /\ OnlyArg(f, <<"2", "x">>) => (IF f = "--count=" THEN want ELSE maxPages) = 2
             /\ OnlyArg(f, <<" ", "2">>) => (IF f = "--count=" THEN want ELSE maxPages) = 2

\* --count=0 followed by --max-pages=x: both defaults, neither clamped to 1.
C31_Witness ==
    /\ pc = "launch"
    /\ argv = <<Arg("--count=", <<"0">>), Arg("--max-pages=", <<"x">>)>>
    /\ want = 100 /\ maxPages = 15

====
